---- MODULE Spec2Model ----
(***************************************************************************)
(* Model of python_audits.py: the LinkedInAutomationAuditor, its six check *)
(* runners, the aggregation in run_full_audit and the command dispatch of  *)
(* main.  The audited environment (project files, data and content         *)
(* directories, the webhook server's answers) is the input: it is chosen   *)
(* in Init and stays fixed during a run.                                   *)
(*                                                                         *)
(* Text is modelled as the set of fragments it contains; `s in content` is *)
(* "some fragment has s as a substring" (SUBSTRINGS lists the proper       *)
(* substring pairs among the fragments used), and a regular expression is  *)
(* the set of fragments it matches (REGEX_MATCHES).  An exception that no  *)
(* handler catches ends the process: pc = "crashed".                       *)
(*                                                                         *)
(* Spec is one run of the program.  RunsSpec is a sequence of runs in the  *)
(* same project while time passes; the files written to audit-reports/     *)
(* stay from one run to the next.  RecommendSpec applies                   *)
(* generate_recommendations, a function of its argument, to result sets a  *)
(* caller may pass.                                                        *)
(***************************************************************************)
EXTENDS Naturals, Sequences, FiniteSets, TLC

VARIABLES
    env,               \* the audited environment (filesystem and server)
    command,           \* args.command
    output,            \* args.output
    clock,             \* the time, in ticks
    run,               \* the number of this run of the program
    saved,             \* the files written to AUDIT_DIR so far, in order
    result_set,        \* a result set a caller has for generate_recommendations
    advice,            \* the calls of generate_recommendations so far
    pc,                \* position in main / run_full_audit
    calls,             \* the check runners invoked so far, in order
    requests,          \* the endpoints urlopen was called for, in order
    file_results,      \* value returned by audit_files
    endpoint_results,  \* the results list of audit_endpoints
    data_results,      \* value returned by audit_data
    content_results,   \* value returned by audit_linkedin_content
    security_results,  \* value returned by audit_security
    code_results,      \* value returned by audit_code_quality
    report             \* the AuditReport built by run_full_audit

vars == <<env, command, output, clock, run, saved, result_set, advice, pc, calls,
          requests, file_results, endpoint_results, data_results, content_results,
          security_results, code_results, report>>

(***************************************************************************)
(* Bounds of the environments explored.                                    *)
(***************************************************************************)
MaxFaults == 1      \* endpoints that answer differently from the others
MaxDays == 4        \* entries of weekly-top-articles.json
MaxBackups == 1     \* sheets-backup-*.json files
MaxMdFiles == 2     \* markdown files in the content directory
MaxMetadata == 1    \* *-metadata.json files
MaxWords == 101     \* words of a content file
MaxResults == 2     \* results of a result set passed to generate_recommendations
MaxCalls == 3       \* calls of generate_recommendations on one auditor
MaxRuns == 2        \* runs of the program one after another
MaxClock == 3       \* ticks of the clock
TicksPerSecond == 2 \* instants told apart within one second

(***************************************************************************)
(* Class constants of LinkedInAutomationAuditor.                           *)
(***************************************************************************)
REQUIRED_FILES ==
    << "zapier-webhook-server.cjs", "linkedin-content-creator.cjs",
       "dutch-recruitment-news-scraper.cjs", "google-sheets-uploader.cjs",
       "complete-automation-flow.cjs", "package.json" >>

REQUIRED_DIRS == << "data", "content", "reports" >>

\* The dict keeps insertion order: <<path, method>> in that order.
ENDPOINTS ==
    << <<"/status", "GET">>, <<"/test", "GET">>, <<"/reports", "GET">>,
       <<"/daily-news-collection", "POST">>, <<"/upload-to-sheets", "POST">>,
       <<"/weekly-content-creation", "POST">>, <<"/get-top-articles", "GET">> >>

CONTENT_TYPES == << "weeklyRoundup", "insightPost", "trendAnalysis", "longFormArticle" >>

\* <<pattern, issue_name>>; a pattern is named by the thing it looks for.
SECURITY_PATTERNS ==
    << <<"api_key", "Hardcoded API key">>,
       <<"secret", "Hardcoded secret/password">>,
       <<"token", "Hardcoded token">>,
       <<"eval", "Unsafe eval() usage">>,
       <<"innerHTML", "Potential XSS via innerHTML">> >>

Range(s) == { s[k] : k \in DOMAIN s }

RECURSIVE Flatten(_)
Flatten(ss) == IF ss = << >> THEN << >> ELSE Head(ss) \o Flatten(Tail(ss))

(***************************************************************************)
(* AuditResult (the timestamp is not modelled).  details is a record, or   *)
(* None.  message is the sequence of the pieces the f-string puts          *)
(* together: the fixed texts and interpolated names as they are, a number  *)
(* digit by digit.  Interpolated values the model does not hold (sizes,    *)
(* item counts, file names, exception texts) are left out of the message.  *)
(***************************************************************************)
None == << >>

AuditResult(name, status, message, details) ==
    [name |-> name, status |-> status, message |-> message, details |-> details]

\* str(n) of a natural number, digit by digit.
RECURSIVE Digits(_)
Digits(n) ==
    LET digit == << "0", "1", "2", "3", "4", "5", "6", "7", "8", "9" >>[(n % 10) + 1]
    IN  IF n < 10 THEN << digit >> ELSE Append(Digits(n \div 10), digit)

\* A runner either returns its results or lets an exception escape.
Returned(results) == [raised |-> FALSE, results |-> results]

Raised == [raised |-> TRUE, results |-> << >>]

(***************************************************************************)
(* Files.  state: "absent", "unreadable" (open or read raises: permission  *)
(* denied, a directory, bytes that do not decode) or "ok".                 *)
(***************************************************************************)
File(state, text) == [state |-> state, text |-> text]

Absent == File("absent", {})

Unreadable == File("unreadable", {})

Exists(f) == f.state # "absent"

CORS_MARKER == "Access-Control-Allow-Origin', '*'"

\* <<s, fragment>>: s is a proper substring of fragment.
SUBSTRINGS ==
    { <<".env", ".env.local">>,
      <<"WEBHOOK_SECRET", "WEBHOOK_SECRET = 'supersecret123'">>,
      <<"try {", "try { run() } catch (e) {}">>,
      <<CORS_MARKER, "res.setHeader('Access-Control-Allow-Origin', '*')">> }

\* Python's `s in content`.
Contains(text, s) == \E frag \in text : s = frag \/ <<s, frag>> \in SUBSTRINGS

\* <<pattern, fragment>>: the pattern (with re.IGNORECASE) matches in fragment.
REGEX_MATCHES ==
    { <<"api_key", "apiKey: 'abcdefghij'">>,
      <<"secret", "WEBHOOK_SECRET = 'supersecret123'">>,
      <<"token", "token = 'abcdefghijklmnopqrst'">>,
      <<"eval", "eval(">>,
      <<"innerHTML", "el.innerHTML = x">> }

\* len(re.findall(pattern, content, re.IGNORECASE)), one match per fragment.
FindAll(pattern, text) == Cardinality({ frag \in text : <<pattern, frag>> \in REGEX_MATCHES })

(***************************************************************************)
(* audit_files                                                             *)
(***************************************************************************)
\* filepath.exists()
FileStatus(f) == IF Exists(f) THEN "pass" ELSE "fail"

\* A directory check as severe as a file check.
DirStatusAsFile(d) == IF d # "absent" /\ d = "dir" THEN "pass" ELSE "fail"

\* dirpath.exists() and dirpath.is_dir(); d is "absent", "file" or "dir"
DirStatus(d) == IF d # "absent" /\ d = "dir" THEN "pass" ELSE "warn"

FileCheck(e, filename) ==
    LET status == FileStatus(e.files[filename])
    IN  AuditResult("file_" \o filename, status,
                    IF status = "pass" THEN << filename, " exists" >>
                    ELSE << filename, " is missing" >>,
                    IF status = "pass" THEN [path |-> filename] ELSE None)

DirCheck(e, dirname) ==
    LET status == DirStatus(e.dirs[dirname])
    IN  AuditResult("dir_" \o dirname, status,
                    IF status = "pass" THEN << dirname, "/ exists" >>
                    ELSE << dirname, "/ is missing" >>,
                    IF status = "pass" THEN [path |-> dirname] ELSE None)

audit_files(e) ==
    Returned([k \in 1..Len(REQUIRED_FILES) |-> FileCheck(e, REQUIRED_FILES[k])]
             \o [k \in 1..Len(REQUIRED_DIRS) |-> DirCheck(e, REQUIRED_DIRS[k])])

(***************************************************************************)
(* audit_endpoints                                                         *)
(***************************************************************************)
HTTP_OK == 200

Http(code) == [kind |-> "http", code |-> code]

Failure(kind) == [kind |-> kind, code |-> 0]

\* What the server does with one request: an HTTP answer, or the connection
\* is refused, or the answer never comes (read times out), or it is not HTTP.
Answers ==
    { Http(200), Http(204), Http(404), Http(500),
      Failure("refused"), Failure("read_timeout"), Failure("bad_status_line") }

\* urllib.request.urlopen(req, timeout=10): a 2xx answer is returned; any other
\* answer raises HTTPError, a subclass of URLError; a failure to connect raises
\* URLError; a timeout or a malformed answer while reading raises another exception.
urlopen(answer) ==
    IF answer.kind = "http"
    THEN IF answer.code \in 200..299
         THEN [type |-> "response", code |-> answer.code, error |-> ""]
         ELSE [type |-> "HTTPError", code |-> answer.code, error |-> "HTTP Error"]
    ELSE IF answer.kind = "refused"
    THEN [type |-> "URLError", code |-> 0, error |-> "Connection refused"]
    ELSE IF answer.kind = "read_timeout"
    THEN [type |-> "TimeoutError", code |-> 0, error |-> "timed out"]
    ELSE [type |-> "BadStatusLine", code |-> 0, error |-> "bad status line"]

\* The exception classes `except urllib.error.URLError` catches.
URLErrorClasses == { "URLError", "HTTPError" }

\* The body of the loop over ENDPOINTS for one outcome of urlopen: the with
\* block, then the two except clauses (both append a fail result).
EndpointResult(endpoint, method, outcome) ==
    IF outcome.type = "response"
    THEN AuditResult("endpoint_" \o endpoint,
                     IF outcome.code = HTTP_OK THEN "pass" ELSE "warn",
                     << method, " ", endpoint, " - HTTP " >> \o Digits(outcome.code),
                     [method |-> method, status |-> outcome.code])
    ELSE IF outcome.type \in URLErrorClasses
    THEN AuditResult("endpoint_" \o endpoint, "fail",
                     << method, " ", endpoint, " - Connection failed" >>,
                     [error |-> outcome.error, handler |-> "URLError"])
    ELSE AuditResult("endpoint_" \o endpoint, "fail",
                     << method, " ", endpoint, " - Error: ", outcome.error >>,
                     [error |-> outcome.error, handler |-> "Exception"])

\* A loop in which a failed request also drops the endpoint after it.
NextEndpointSkipping(k, outcome) == IF outcome.type = "response" THEN k + 1 ELSE k + 2

\* The for loop takes the next item of ENDPOINTS whatever the outcome was.
NextEndpoint(k, outcome) == k + 1

\* The loop over ENDPOINTS from item k on: one urlopen call per item.
\* acc: the urlopen calls made and the results appended so far.
RECURSIVE EndpointLoop(_, _, _)
EndpointLoop(e, k, acc) ==
    IF k > Len(ENDPOINTS) THEN acc
    ELSE LET endpoint == ENDPOINTS[k][1]
             method == ENDPOINTS[k][2]
             outcome == urlopen(e.net[endpoint])
         IN  EndpointLoop(e, NextEndpoint(k, outcome),
                 [requests |-> Append(acc.requests, endpoint),
                  results |-> Append(acc.results, EndpointResult(endpoint, method, outcome))])

audit_endpoints(e) == EndpointLoop(e, 1, [requests |-> << >>, results |-> << >>])

(***************************************************************************)
(* audit_data                                                              *)
(***************************************************************************)
MIN_DAYS == 3

\* A value inside a parsed JSON object: missing, sized (len() works: a list,
\* a string, an object) or unsized (a number, null, a boolean).
Field(kind, len) == [kind |-> kind, len |-> len]

Missing == Field("missing", 0)

\* What json.load gives: "invalid" (JSONDecodeError), a "dict", a "list" of
\* len entries, or a "scalar" (number, string, null, boolean).
Json(kind, len, categories, sources) ==
    [kind |-> kind, len |-> len, categories |-> categories, sources |-> sources]

InvalidJson == Json("invalid", 0, Missing, Missing)

ScalarJson == Json("scalar", 0, Missing, Missing)

ListJson(n) == Json("list", n, Missing, Missing)

DictJson(categories, sources) == Json("dict", 0, categories, sources)

\* A file of DATA_DIR is there only when data/ is a directory.
DataFile(e, f) == IF e.dirs["data"] = "dir" THEN f ELSE Absent

\* len(data.get(key, [])): the default [] when the key is missing; TypeError
\* when the value has no len().
LenOfField(v) ==
    IF v.kind = "missing" THEN [raised |-> FALSE, len |-> 0]
    ELSE IF v.kind = "sized" THEN [raised |-> FALSE, len |-> v.len]
    ELSE [raised |-> TRUE, len |-> 0]

\* The latest-dutch-news.json block.  Only json.JSONDecodeError is caught:
\* a failing open/read, data.get on a value that is no dict and len() of an
\* unsized value escape.
NewsCheck(e) ==
    LET f == DataFile(e, e.news)
    IN  IF ~Exists(f)
        THEN Returned(<< AuditResult("data_latest_news", "warn",
                                    << "latest-dutch-news.json not found" >>, None) >>)
        ELSE IF f.state = "unreadable" THEN Raised
        ELSE IF f.text.kind = "invalid"
        THEN Returned(<< AuditResult("data_latest_news", "fail",
                                    << "latest-dutch-news.json: Invalid JSON" >>, None) >>)
        ELSE IF f.text.kind # "dict" THEN Raised
        ELSE LET categories == LenOfField(f.text.categories)
                 sources == LenOfField(f.text.sources)
             IN  IF categories.raised \/ sources.raised THEN Raised
                 ELSE Returned(<< AuditResult("data_latest_news", "pass",
                                     << "latest-dutch-news.json: ", " articles, " >>
                                     \o Digits(categories.len) \o << " categories" >>,
                                     [categories |-> categories.len,
                                      sources |-> sources.len]) >>)

\* len(data) if isinstance(data, list) else 0
DaysCount(data) == IF data.kind = "list" THEN data.len ELSE 0

WeeklyStatus(days_count) == IF days_count >= MIN_DAYS THEN "pass" ELSE "warn"

\* The weekly-top-articles.json block.
WeeklyCheck(e) ==
    LET f == DataFile(e, e.weekly)
    IN  IF ~Exists(f)
        THEN Returned(<< AuditResult("data_weekly_articles", "warn",
                << "weekly-top-articles.json not found - needed for LinkedIn content" >>,
                None) >>)
        ELSE IF f.state = "unreadable" THEN Raised
        ELSE IF f.text.kind = "invalid"
        THEN Returned(<< AuditResult("data_weekly_articles", "fail",
                                    << "weekly-top-articles.json: Invalid JSON" >>, None) >>)
        ELSE Returned(<< AuditResult("data_weekly_articles",
                             WeeklyStatus(DaysCount(f.text)),
                             << "weekly-top-articles.json: " >> \o Digits(DaysCount(f.text))
                             \o << " days of data" >>,
                             [days |-> DaysCount(f.text)]) >>)

\* len(list(DATA_DIR.glob("sheets-backup-*.json")))
BackupCount(e) == IF e.dirs["data"] = "dir" THEN e.backups ELSE 0

BackupCheck(e) ==
    Returned(<< AuditResult("data_backups",
                    IF BackupCount(e) > 0 THEN "pass" ELSE "info",
                    << "Sheets backups: " >> \o Digits(BackupCount(e)) \o << " files" >>,
                    [count |-> BackupCount(e)]) >>)

\* Statement after statement: the first block that raises ends the runner.
RECURSIVE InSequence(_)
InSequence(blocks) ==
    IF blocks = << >> THEN Returned(<< >>)
    ELSE IF Head(blocks).raised THEN Raised
    ELSE LET rest == InSequence(Tail(blocks))
         IN  IF rest.raised THEN Raised
             ELSE Returned(Head(blocks).results \o rest.results)

audit_data(e) == InSequence(<< NewsCheck(e), WeeklyCheck(e), BackupCheck(e) >>)

(***************************************************************************)
(* audit_linkedin_content                                                  *)
(***************************************************************************)
MIN_WORDS == 100

KEYWORDS == { "recruitment", "nederlandse", "arbeidsmarkt" }

\* str.lower() on the words and result names used here.
Lower(w) ==
    CASE w = "Recruitment" -> "recruitment"
      [] w = "NEDERLANDSE" -> "nederlandse"
      [] w = "Arbeidsmarkt" -> "arbeidsmarkt"
      [] w = "content_weeklyRoundup" -> "content_weeklyroundup"
      [] w = "content_insightPost" -> "content_insightpost"
      [] w = "content_trendAnalysis" -> "content_trendanalysis"
      [] w = "content_longFormArticle" -> "content_longformarticle"
      [] OTHER -> w

\* The text of a markdown file: its number of whitespace-separated words,
\* whether it holds a '#', and the distinct words of interest in it.
MdText(words, hashtag, vocabulary) ==
    [words |-> words, hashtag |-> hashtag, vocabulary |-> vocabulary]

\* A markdown file of CONTENT_DIR.  kind: the <type> of a name *-<type>.md,
\* or "other" for a name no content-type pattern matches.
MdFile(kind, mtime, state, text) ==
    [kind |-> kind, mtime |-> mtime, state |-> state, text |-> text]

\* CONTENT_DIR.exists(): true of a directory and of any other file.
ContentDirExists(e) == e.dirs["content"] # "absent"

\* list(CONTENT_DIR.glob("*.md")), in directory order: nothing unless
\* CONTENT_DIR is a directory.
MdFiles(e) == IF e.dirs["content"] = "dir" THEN e.md_files ELSE << >>

\* list(CONTENT_DIR.glob(f"*-{content_type}.md"))
GlobType(e, content_type) == SelectSeq(MdFiles(e), LAMBDA f : f.kind = content_type)

\* len(list(CONTENT_DIR.glob("*-metadata.json")))
MetadataCount(e) == IF e.dirs["content"] = "dir" THEN e.metadata ELSE 0

ContentTypeCheck(e, content_type) ==
    LET files == GlobType(e, content_type)
    IN  AuditResult("content_" \o content_type,
                    IF files # << >> THEN "pass" ELSE "info",
                    << content_type, ": " >> \o Digits(Len(files)) \o << " files" >>,
                    [count |-> Len(files)])

\* max(md_files, key=lambda f: f.stat().st_mtime): the first of the files
\* with the largest mtime.
Latest(md_files) ==
    md_files[CHOOSE k \in DOMAIN md_files :
                /\ \A j \in DOMAIN md_files : md_files[j].mtime <= md_files[k].mtime
                /\ \A j \in 1..(k - 1) : md_files[j].mtime < md_files[k].mtime]

\* any(word in content.lower() for word in [...])
HasDutch(text) == \E w \in text.vocabulary : Lower(w) \in KEYWORDS

QualityStatus(word_count, has_hashtags, has_dutch) ==
    IF word_count > MIN_WORDS /\ has_hashtags /\ has_dutch THEN "pass" ELSE "warn"

\* The quality analysis of the latest markdown file; its open/read is not
\* guarded.
QualityOfLatest(md_files) ==
    LET latest_file == Latest(md_files)
    IN  IF latest_file.state = "unreadable" THEN Raised
        ELSE Returned(<< AuditResult("content_quality",
                 QualityStatus(latest_file.text.words,
                               latest_file.text.hashtag,
                               HasDutch(latest_file.text)),
                 << "Latest content: (" >> \o Digits(latest_file.text.words)
                 \o << " words)" >>,
                 [file |-> latest_file,
                  word_count |-> latest_file.text.words,
                  has_hashtags |-> latest_file.text.hashtag,
                  has_dutch_keywords |-> HasDutch(latest_file.text)]) >>)

\* A quality check that reports on an empty directory too.
QualityCheckUnguarded(e) ==
    IF MdFiles(e) = << >>
    THEN Returned(<< AuditResult("content_quality", "warn", << "No content" >>, None) >>)
    ELSE QualityOfLatest(MdFiles(e))

\* The "Analyze latest content quality" block: `if md_files:`.
QualityCheck(e) ==
    IF MdFiles(e) = << >> THEN Returned(<< >>) ELSE QualityOfLatest(MdFiles(e))

MetadataCheck(e) ==
    Returned(<< AuditResult("content_metadata",
                    IF MetadataCount(e) > 0 THEN "pass" ELSE "info",
                    << "Metadata files: " >> \o Digits(MetadataCount(e)),
                    [count |-> MetadataCount(e)]) >>)

\* The early return when CONTENT_DIR does not exist.
MissingContentDir == Returned(<< AuditResult("content_dir", "warn",
                                             << "Content directory does not exist" >>, None) >>)

audit_linkedin_content(e) ==
    IF ~ContentDirExists(e) THEN MissingContentDir
    ELSE InSequence(<<
             Returned([k \in 1..Len(CONTENT_TYPES) |-> ContentTypeCheck(e, CONTENT_TYPES[k])]),
             QualityCheck(e),
             MetadataCheck(e) >>)

(***************************************************************************)
(* audit_security                                                          *)
(***************************************************************************)
\* list(self.base_dir.glob("*.cjs")): the .cjs files present in base_dir.
JsFiles(e) ==
    SelectSeq(SubSeq(REQUIRED_FILES, 1, 5), LAMBDA name : Exists(e.files[name]))

\* The issues one file adds to issues_found; a file that cannot be read is
\* skipped (the try/except inside the loop only logs).
IssuesOfFile(e, name) ==
    IF e.files[name].state = "unreadable" THEN << >>
    ELSE LET hits == SelectSeq(SECURITY_PATTERNS,
                         LAMBDA p : FindAll(p[1], e.files[name].text) > 0)
         IN  [k \in 1..Len(hits) |->
                 [file |-> name, issue |-> hits[k][2],
                  matches |-> FindAll(hits[k][1], e.files[name].text)]]

IssuesFound(e) ==
    LET js_files == JsFiles(e)
    IN  Flatten([k \in 1..Len(js_files) |-> IssuesOfFile(e, js_files[k])])

\* A code scan that reports its findings as failures.
CodeScanStatusFail(issues_found) == IF issues_found # << >> THEN "fail" ELSE "pass"

CodeScanStatus(issues_found) == IF issues_found # << >> THEN "warn" ELSE "pass"

CodeScanCheck(e) ==
    Returned(<< AuditResult("security_code_scan", CodeScanStatus(IssuesFound(e)),
                    IF IssuesFound(e) # << >>
                    THEN << "Found " >> \o Digits(Len(IssuesFound(e)))
                         \o << " potential security issues" >>
                    ELSE << "No obvious security issues in code" >>,
                    IF IssuesFound(e) # << >> THEN [issues |-> IssuesFound(e)] ELSE None) >>)

WebhookSecretStatus(has_webhook_secret) == IF has_webhook_secret THEN "pass" ELSE "warn"

\* The .env block: the read of an existing .env is not guarded.
EnvFileCheck(e) ==
    IF ~Exists(e.dotenv)
    THEN Returned(<< AuditResult("security_env_file", "warn", << ".env file not found" >>, None) >>)
    ELSE IF e.dotenv.state = "unreadable" THEN Raised
    ELSE Returned(<< AuditResult("security_env_file", "pass", << ".env file exists" >>, None),
                     AuditResult("security_webhook_secret",
                         WebhookSecretStatus(Contains(e.dotenv.text, "WEBHOOK_SECRET")),
                         << "WEBHOOK_SECRET: ",
                            IF Contains(e.dotenv.text, "WEBHOOK_SECRET")
                            THEN "configured" ELSE "not found" >>,
                         None) >>)

GitignoreStatus(env_ignored) == IF env_ignored THEN "pass" ELSE "fail"

\* The .gitignore block: no result without the file.
GitignoreCheck(e) ==
    IF ~Exists(e.gitignore) THEN Returned(<< >>)
    ELSE IF e.gitignore.state = "unreadable" THEN Raised
    ELSE Returned(<< AuditResult("security_gitignore",
                         GitignoreStatus(Contains(e.gitignore.text, ".env")),
                         << ".env in .gitignore: ",
                            IF Contains(e.gitignore.text, ".env") THEN "True" ELSE "False" >>,
                         None) >>)

CorsStatus(open_cors) == IF open_cors THEN "warn" ELSE "pass"

\* The CORS block: no result without zapier-webhook-server.cjs.
CorsCheck(e) ==
    LET server_file == e.files["zapier-webhook-server.cjs"]
    IN  IF ~Exists(server_file) THEN Returned(<< >>)
        ELSE IF server_file.state = "unreadable" THEN Raised
        ELSE Returned(<< AuditResult("security_cors",
                             CorsStatus(Contains(server_file.text, CORS_MARKER)),
                             << "CORS: ",
                                IF Contains(server_file.text, CORS_MARKER)
                                THEN "Open (*)" ELSE "Restricted" >>,
                             None) >>)

audit_security(e) ==
    InSequence(<< CodeScanCheck(e), EnvFileCheck(e), GitignoreCheck(e), CorsCheck(e) >>)

(***************************************************************************)
(* audit_code_quality                                                      *)
(***************************************************************************)
MIN_TRY_CATCH == 3

required_methods ==
    << "runWeeklyContentCreation", "generateWeeklyRoundupPost", "generateInsightPost",
       "generateTrendAnalysisPost", "generateLongFormArticle", "analyzeWeeklyTrends" >>

templates == << "weeklyRoundup", "insightPost", "trendAnalysis", "article" >>

endpoints_in_code ==
    << "/daily-news-collection", "/upload-to-sheets", "/weekly-content-creation",
       "/get-top-articles", "/status", "/test", "/reports" >>

\* [x for x in wanted if x in content]
Found(wanted, text) == SelectSeq(wanted, LAMBDA x : Contains(text, x))

\* The linkedin-content-creator.cjs block.
CreatorCheck(e) ==
    LET creator_file == e.files["linkedin-content-creator.cjs"]
    IN  IF ~Exists(creator_file) THEN Returned(<< >>)
        ELSE IF creator_file.state = "unreadable" THEN Raised
        ELSE LET found_methods == Found(required_methods, creator_file.text)
                 found_templates == Found(templates, creator_file.text)
             IN  Returned(<<
                     AuditResult("code_linkedin_methods",
                         IF Len(found_methods) = Len(required_methods) THEN "pass" ELSE "warn",
                         << "LinkedIn Creator: " >> \o Digits(Len(found_methods)) \o << "/" >>
                         \o Digits(Len(required_methods)) \o << " methods found" >>,
                         [found |-> found_methods]),
                     AuditResult("code_templates",
                         IF Len(found_templates) = Len(templates) THEN "pass" ELSE "warn",
                         << "Content templates: " >> \o Digits(Len(found_templates)) \o << "/" >>
                         \o Digits(Len(templates)) \o << " configured" >>,
                         [templates |-> found_templates]) >>)

\* The zapier-webhook-server.cjs block.
ServerCheck(e) ==
    LET server_file == e.files["zapier-webhook-server.cjs"]
    IN  IF ~Exists(server_file) THEN Returned(<< >>)
        ELSE IF server_file.state = "unreadable" THEN Raised
        ELSE LET found_endpoints == Found(endpoints_in_code, server_file.text)
             IN  Returned(<< AuditResult("code_endpoints",
                      IF Len(found_endpoints) = Len(endpoints_in_code) THEN "pass" ELSE "warn",
                      << "Webhook endpoints: " >> \o Digits(Len(found_endpoints)) \o << "/" >>
                      \o Digits(Len(endpoints_in_code)) \o << " implemented" >>,
                      [endpoints |-> found_endpoints]) >>)

\* The error-handling block: every .cjs file is read, unguarded.
ErrorHandlingCheck(e) ==
    LET js_files == JsFiles(e)
        files_with_try_catch ==
            Len(SelectSeq(js_files, LAMBDA name : Contains(e.files[name].text, "try {")))
    IN  IF \E k \in DOMAIN js_files : e.files[js_files[k]].state = "unreadable"
        THEN Raised
        ELSE Returned(<< AuditResult("code_error_handling",
                             IF files_with_try_catch > MIN_TRY_CATCH THEN "pass" ELSE "warn",
                             << "Error handling: " >> \o Digits(files_with_try_catch)
                             \o << "/" >> \o Digits(Len(js_files))
                             \o << " files", " use try-catch" >>,
                             [files_with_handling |-> files_with_try_catch,
                              total_files |-> Len(js_files)]) >>)

audit_code_quality(e) ==
    InSequence(<< CreatorCheck(e), ServerCheck(e), ErrorHandlingCheck(e) >>)

(***************************************************************************)
(* generate_recommendations                                                *)
(***************************************************************************)
\* <<s, name>>: s is a substring of name, for the lower-cased names the
\* runners give their results and the texts the rules look for in them.
NAME_PARTS ==
    { <<"cors", "security_cors">>,
      <<"env", "security_env_file">>,
      <<"weekly", "endpoint_/weekly-content-creation">>,
      <<"weekly", "data_weekly_articles">>,
      <<"weekly", "content_weeklyroundup">>,
      <<"content", "file_linkedin-content-creator.cjs">>,
      <<"content", "dir_content">>,
      <<"content", "endpoint_/weekly-content-creation">>,
      <<"content", "content_dir">>,
      <<"content", "content_weeklyroundup">>,
      <<"content", "content_insightpost">>,
      <<"content", "content_trendanalysis">>,
      <<"content", "content_longformarticle">>,
      <<"content", "content_quality">>,
      <<"content", "content_metadata">>,
      <<"backup", "data_backups">>,
      <<"endpoint", "endpoint_/status">>,
      <<"endpoint", "endpoint_/test">>,
      <<"endpoint", "endpoint_/reports">>,
      <<"endpoint", "endpoint_/daily-news-collection">>,
      <<"endpoint", "endpoint_/upload-to-sheets">>,
      <<"endpoint", "endpoint_/weekly-content-creation">>,
      <<"endpoint", "endpoint_/get-top-articles">>,
      <<"endpoint", "code_endpoints">> }

\* s in r.name.lower()
InName(s, name) == <<s, Lower(name)>> \in NAME_PARTS

\* The pieces of "0 files": the digit 0, then " files".
ZERO_FILES == << "0", " files" >>

\* `s in r.message`, s and the message in pieces: s is in the message where
\* its pieces follow one another.  (Messages are cut so that " files" is a
\* piece of its own wherever it occurs.)
InMessage(s, message) ==
    \E i \in 1..Len(message) :
        /\ i + Len(s) - 1 <= Len(message)
        /\ SubSeq(message, i, i + Len(s) - 1) = s

\* fails = [r for r in all_results if r.status == "fail"]
fails(all_results) == SelectSeq(all_results, LAMBDA r : r.status = "fail")

\* warns = [r for r in all_results if r.status == "warn"]
warns(all_results) == SelectSeq(all_results, LAMBDA r : r.status = "warn")

\* The advice of the six if statements, in the order of the code.
ADVICE ==
    << "Consider restricting CORS to specific domains in production",
       "Ensure .env file is properly configured with all required secrets",
       "Run daily uploads for at least 3 days before generating weekly LinkedIn content",
       "Generate LinkedIn content using: node linkedin-content-creator.cjs create",
       "Set up automated backups of the data directory",
       "Ensure the webhook server is running: npm start" >>

\* The condition of the k-th if statement: any(... for r in ...).
Condition(k, all_results) ==
    CASE k = 1 -> \E r \in Range(warns(all_results)) : InName("cors", r.name)
      [] k = 2 -> \E r \in Range(warns(all_results) \o fails(all_results)) :
                     InName("env", r.name)
      [] k = 3 -> \E r \in Range(all_results) :
                     InName("weekly", r.name) /\ r.status # "pass"
      [] k = 4 -> \E r \in Range(all_results) :
                     InName("content", r.name) /\ InMessage(ZERO_FILES, r.message)
      [] k = 5 -> \E r \in Range(all_results) : InName("backup", r.name)
      [] k = 6 -> \E r \in Range(all_results) :
                     InName("endpoint", r.name) /\ r.status = "fail"

\* "Default recommendations"
DEFAULT_RECOMMENDATIONS ==
    << "Review generated LinkedIn content before manual posting",
       "Monitor endpoint response times in production",
       "Keep dependencies updated: npm update",
       "Test automation flow weekly to ensure reliability" >>

\* A chain in which the first statement whose condition holds is the last
\* one looked at (if / elif).
RECURSIVE IfStatementsAsElif(_, _, _)
IfStatementsAsElif(k, all_results, recommendations) ==
    IF k > Len(ADVICE) THEN recommendations
    ELSE IF Condition(k, all_results) THEN Append(recommendations, ADVICE[k])
    ELSE IfStatementsAsElif(k + 1, all_results, recommendations)

\* The if statements from the k-th on, one after another: each appends its
\* advice when its condition holds and goes on to the next either way.
RECURSIVE IfStatements(_, _, _)
IfStatements(k, all_results, recommendations) ==
    IF k > Len(ADVICE) THEN recommendations
    ELSE IfStatements(k + 1, all_results,
             IF Condition(k, all_results)
             THEN Append(recommendations, ADVICE[k]) ELSE recommendations)

\* A list that starts as the previous call left it.
ListOfPreviousCall ==
    IF advice = << >> THEN << >> ELSE advice[Len(advice)].recommendations

\* recommendations = []: every call starts with a list of its own.
NewList == << >>

generate_recommendations(all_results) ==
    IfStatements(1, all_results, NewList) \o DEFAULT_RECOMMENDATIONS

(***************************************************************************)
(* run_full_audit: the aggregation                                         *)
(***************************************************************************)
\* len([r for r in all_results if r.status == status])
CountStatus(all_results, status) ==
    Cardinality({ k \in DOMAIN all_results : all_results[k].status = status })

Summary(all_results) ==
    [total_checks |-> Len(all_results),
     passed |-> CountStatus(all_results, "pass"),
     warnings |-> CountStatus(all_results, "warn"),
     failed |-> CountStatus(all_results, "fail"),
     info |-> CountStatus(all_results, "info")]

\* A concatenation that forgets the last category.
AllResultsWithoutCode(files, endpoints, data, content, security, code) ==
    files \o endpoints \o data \o content \o security

AllResults(files, endpoints, data, content, security, code) ==
    files \o endpoints \o data \o content \o security \o code

TITLE == "Dutch Recruitment Intelligence - Audit Report"

\* The AuditReport run_full_audit creates (its timestamp is not modelled).
AuditReport(files, endpoints, data, content, security, code) ==
    [title |-> TITLE,
     summary |-> Summary(AllResults(files, endpoints, data, content, security, code)),
     file_audit |-> files, endpoint_audit |-> endpoints, data_audit |-> data,
     content_audit |-> content, security_audit |-> security, code_audit |-> code,
     recommendations |->
         generate_recommendations(
             AllResults(files, endpoints, data, content, security, code))]

\* No report yet.
NoReport ==
    [title |-> "", summary |-> Summary(<< >>),
     file_audit |-> << >>, endpoint_audit |-> << >>, data_audit |-> << >>,
     content_audit |-> << >>, security_audit |-> << >>, code_audit |-> << >>,
     recommendations |-> << >>]

(***************************************************************************)
(* AuditReport.to_dict, json.dump and json.load.  A JSON text is the tree  *)
(* of its values: [type, value], an object holding its members             *)
(* <<key, value>> in the order written.                                    *)
(***************************************************************************)
\* dataclasses.asdict(r): a dict of the fields of r.
asdict(r) ==
    [name |-> r.name, status |-> r.status, message |-> r.message, details |-> r.details]

\* A to_dict that takes code_audit from the security results.
to_dict_code_from_security(r) ==
    [title |-> r.title,
     summary |-> r.summary,
     file_audit |-> [k \in DOMAIN r.file_audit |-> asdict(r.file_audit[k])],
     endpoint_audit |-> [k \in DOMAIN r.endpoint_audit |-> asdict(r.endpoint_audit[k])],
     data_audit |-> [k \in DOMAIN r.data_audit |-> asdict(r.data_audit[k])],
     content_audit |-> [k \in DOMAIN r.content_audit |-> asdict(r.content_audit[k])],
     security_audit |-> [k \in DOMAIN r.security_audit |-> asdict(r.security_audit[k])],
     code_audit |-> [k \in DOMAIN r.security_audit |-> asdict(r.security_audit[k])],
     recommendations |-> r.recommendations]

to_dict(r) ==
    [title |-> r.title,
     summary |-> r.summary,
     file_audit |-> [k \in DOMAIN r.file_audit |-> asdict(r.file_audit[k])],
     endpoint_audit |-> [k \in DOMAIN r.endpoint_audit |-> asdict(r.endpoint_audit[k])],
     data_audit |-> [k \in DOMAIN r.data_audit |-> asdict(r.data_audit[k])],
     content_audit |-> [k \in DOMAIN r.content_audit |-> asdict(r.content_audit[k])],
     security_audit |-> [k \in DOMAIN r.security_audit |-> asdict(r.security_audit[k])],
     code_audit |-> [k \in DOMAIN r.code_audit |-> asdict(r.code_audit[k])],
     recommendations |-> r.recommendations]

JsonString(s) == [type |-> "string", value |-> s]

JsonNumber(n) == [type |-> "number", value |-> n]

JsonNull == [type |-> "null", value |-> << >>]

JsonArray(items) == [type |-> "array", value |-> items]

JsonObject(members) == [type |-> "object", value |-> members]

\* The details dict of a result: str keys; str, int, bool and list values,
\* which json writes and reads back as they are.
JsonDetails(details) == [type |-> "details", value |-> details]

\* json.dump of the dict of one result.
DumpResult(d) ==
    JsonObject(<< <<"name", JsonString(d.name)>>,
                  <<"status", JsonString(d.status)>>,
                  <<"message", JsonString(d.message)>>,
                  <<"details", IF d.details = None THEN JsonNull
                               ELSE JsonDetails(d.details)>> >>)

DumpResults(list) == JsonArray([k \in DOMAIN list |-> DumpResult(list[k])])

DumpSummary(summary) ==
    JsonObject(<< <<"total_checks", JsonNumber(summary.total_checks)>>,
                  <<"passed", JsonNumber(summary.passed)>>,
                  <<"warnings", JsonNumber(summary.warnings)>>,
                  <<"failed", JsonNumber(summary.failed)>>,
                  <<"info", JsonNumber(summary.info)>> >>)

\* json.dump(report.to_dict(), f, indent=2, ensure_ascii=False)
json_dump(d) ==
    JsonObject(<< <<"title", JsonString(d.title)>>,
                  <<"summary", DumpSummary(d.summary)>>,
                  <<"file_audit", DumpResults(d.file_audit)>>,
                  <<"endpoint_audit", DumpResults(d.endpoint_audit)>>,
                  <<"data_audit", DumpResults(d.data_audit)>>,
                  <<"content_audit", DumpResults(d.content_audit)>>,
                  <<"security_audit", DumpResults(d.security_audit)>>,
                  <<"code_audit", DumpResults(d.code_audit)>>,
                  <<"recommendations",
                    JsonArray([k \in DOMAIN d.recommendations |->
                                  JsonString(d.recommendations[k])])>> >>)

\* json.load: an object becomes a dict (of a key written twice the last
\* value stays), an array a list, null None.
RECURSIVE json_load(_)
json_load(j) ==
    CASE j.type \in { "string", "number", "details" } -> j.value
      [] j.type = "null" -> None
      [] j.type = "array" -> [k \in DOMAIN j.value |-> json_load(j.value[k])]
      [] j.type = "object" ->
             [key \in { j.value[k][1] : k \in DOMAIN j.value } |->
                 LET last == CHOOSE k \in DOMAIN j.value :
                                 /\ j.value[k][1] = key
                                 /\ \A l \in DOMAIN j.value : j.value[l][1] = key => l <= k
                 IN  json_load(j.value[last][2])]

(***************************************************************************)
(* _generate_markdown_report and save_report                               *)
(***************************************************************************)
\* {"pass": ..., "warn": ..., "fail": ..., "info": ...}.get(r.status, "?");
\* the tables of the endpoint, security and code results have no "info".
StatusIcon(with_info, status) ==
    IF status = "info" /\ ~with_info THEN "?" ELSE status

\* The rows of the table of one category (the name column is left out).
Rows(results, with_info) ==
    [k \in DOMAIN results |->
        << StatusIcon(with_info, results[k].status), results[k].message >>]

\* The markdown document: title, the four rows of the summary table (none
\* for info), a table per category, the numbered recommendations.  The
\* static text after them is left out.
MarkdownReport(r) ==
    [title |-> r.title,
     summary |-> [total_checks |-> r.summary.total_checks, passed |-> r.summary.passed,
                  warnings |-> r.summary.warnings, failed |-> r.summary.failed],
     file_audit |-> Rows(r.file_audit, TRUE),
     endpoint_audit |-> Rows(r.endpoint_audit, FALSE),
     data_audit |-> Rows(r.data_audit, TRUE),
     content_audit |-> Rows(r.content_audit, TRUE),
     security_audit |-> Rows(r.security_audit, FALSE),
     code_audit |-> Rows(r.code_audit, FALSE),
     recommendations |-> [k \in DOMAIN r.recommendations |-> << k, r.recommendations[k] >>]]

\* The choices of --output.
OUTPUTS == { "json", "md", "all" }

\* datetime.now().strftime("%Y-%m-%d_%H-%M-%S"): the time to the second.
strftime(now) == ToString(now \div TicksPerSecond)

ReportFile(timestamp, suffix) == "audit-report-" \o timestamp \o suffix

\* A file written with open(..., 'w') by run n at time now.
Written(file, format, n, now, content) ==
    [file |-> file, format |-> format, run |-> n, at |-> now, content |-> content]

\* The files save_report writes at time now, in the order it writes them.
save_report(r, format, now, n) ==
    LET timestamp == strftime(now)
    IN  (IF format \in { "json", "all" }
         THEN << Written(ReportFile(timestamp, ".json"), "json", n, now,
                       json_dump(to_dict(r))) >>
         ELSE << >>)
        \o
        (IF format \in { "md", "all" }
         THEN << Written(ReportFile(timestamp, ".md"), "md", n, now, MarkdownReport(r)) >>
         ELSE << >>)

(***************************************************************************)
(* The environments explored.  Baseline is the healthy project; each       *)
(* family varies what one runner reads and keeps the rest as in Baseline.  *)
(***************************************************************************)
FileNames == Range(REQUIRED_FILES)

EndpointPaths == { ENDPOINTS[k][1] : k \in DOMAIN ENDPOINTS }

TRY_BLOCK == "try { run() } catch (e) {}"

HealthyScript == File("ok", { TRY_BLOCK })

HealthyServer == File("ok", Range(endpoints_in_code) \cup { TRY_BLOCK })

HealthyCreator == File("ok", Range(required_methods) \cup Range(templates) \cup { TRY_BLOCK })

OkJson(json) == [state |-> "ok", text |-> json]

AbsentJson == [state |-> "absent", text |-> InvalidJson]

UnreadableJson == [state |-> "unreadable", text |-> InvalidJson]

GoodText == MdText(MaxWords, TRUE, { "recruitment" })

NoText == MdText(0, FALSE, {})

Baseline ==
    [files |-> [name \in FileNames |->
                   CASE name = "zapier-webhook-server.cjs" -> HealthyServer
                     [] name = "linkedin-content-creator.cjs" -> HealthyCreator
                     [] name = "package.json" -> File("ok", {})
                     [] OTHER -> HealthyScript],
     dirs |-> [d \in Range(REQUIRED_DIRS) |-> "dir"],
     news |-> OkJson(DictJson(Field("sized", 2), Field("sized", 3))),
     weekly |-> OkJson(ListJson(MIN_DAYS)),
     backups |-> 1,
     md_files |-> [k \in 1..Len(CONTENT_TYPES) |-> MdFile(CONTENT_TYPES[k], k, "ok", GoodText)],
     metadata |-> 1,
     dotenv |-> File("ok", { "WEBHOOK_SECRET" }),
     gitignore |-> File("ok", { "node_modules", ".env" }),
     net |-> [ep \in EndpointPaths |-> Http(HTTP_OK)]]

\* Any subset of the required files, any state of the required directories.
FilesEnvs ==
    { [Baseline EXCEPT
          !.files = [name \in FileNames |->
                        IF name \in present THEN Baseline.files[name] ELSE Absent],
          !.dirs = dirs] :
      present \in SUBSET FileNames,
      dirs \in [Range(REQUIRED_DIRS) -> { "absent", "file", "dir" }] }

\* The server is up or down for every endpoint alike, but for at most
\* MaxFaults of them, which get any answer.
NetEnvs ==
    UNION { { [Baseline EXCEPT
                  !.net = [ep \in EndpointPaths |-> IF ep \in D THEN a[ep] ELSE base]] :
              a \in [D -> Answers], base \in { Http(HTTP_OK), Failure("refused") } } :
            D \in { X \in SUBSET EndpointPaths : Cardinality(X) <= MaxFaults } }

FieldValues == { Missing, Field("sized", 2), Field("unsized", 0) }

NewsFiles ==
    { AbsentJson, UnreadableJson, OkJson(InvalidJson), OkJson(ScalarJson), OkJson(ListJson(0)) }
    \cup { OkJson(DictJson(c, s)) : c \in FieldValues, s \in FieldValues }

WeeklyFiles ==
    { AbsentJson, UnreadableJson, OkJson(InvalidJson), OkJson(ScalarJson),
      OkJson(DictJson(Missing, Missing)) }
    \cup { OkJson(ListJson(n)) : n \in 0..MaxDays }

DataEnvs ==
    { [Baseline EXCEPT !.news = n, !.weekly = w, !.backups = b] :
      n \in NewsFiles, w \in WeeklyFiles, b \in 0..MaxBackups }

Mtimes == { 1, 2 }

WordCounts == { 0 } \cup ((MIN_WORDS - 1)..MaxWords)

Vocabularies ==
    { {}, { "recruitment" }, { "Arbeidsmarkt" }, { "vacature" }, { "vacature", "NEDERLANDSE" } }

Texts == { MdText(w, h, v) : w \in WordCounts, h \in BOOLEAN, v \in Vocabularies }

\* Files of any text, and files that cannot be read.
ProbeFiles ==
    { MdFile("weeklyRoundup", t, "ok", x) : t \in Mtimes, x \in Texts }
    \cup { MdFile("weeklyRoundup", t, "unreadable", NoText) : t \in Mtimes }

PlainFiles == { MdFile("other", t, "ok", GoodText) : t \in Mtimes }

TypeFiles == { MdFile(kind, 1, "ok", GoodText) : kind \in Range(CONTENT_TYPES) \cup { "other" } }

\* Content directories of up to MaxMdFiles markdown files: of any types, or
\* with one file of any text and any age among good ones.
ContentEnvs ==
    { [Baseline EXCEPT !.md_files = fs, !.metadata = m] :
      fs \in UNION { [1..n -> TypeFiles] : n \in 0..MaxMdFiles }, m \in 0..MaxMetadata }
    \cup UNION { { [Baseline EXCEPT
                       !.md_files = [k \in 1..n |-> IF k = pos THEN probe ELSE plain[k]]] :
                   probe \in ProbeFiles, plain \in [1..n -> PlainFiles] } :
                 n \in 1..MaxMdFiles, pos \in 1..MaxMdFiles }

DotenvFiles ==
    { Absent, Unreadable, File("ok", {}), File("ok", { "WEBHOOK_SECRET" }),
      File("ok", { "WEBHOOK_SECRET = 'supersecret123'" }) }

GitignoreFiles ==
    { Absent, Unreadable, File("ok", {}), File("ok", { "node_modules" }),
      File("ok", { ".env" }), File("ok", { ".env.local" }) }

SecurityServerFiles ==
    { Absent, Unreadable }
    \cup { File("ok", HealthyServer.text \cup extra) :
           extra \in SUBSET { "res.setHeader('Access-Control-Allow-Origin', '*')", "eval(" } }

SecurityScriptFiles ==
    { Absent, Unreadable, HealthyScript,
      File("ok", { TRY_BLOCK, "apiKey: 'abcdefghij'", "el.innerHTML = x" }) }

SecurityEnvs ==
    { [Baseline EXCEPT
          !.dotenv = d, !.gitignore = g,
          !.files["zapier-webhook-server.cjs"] = sv,
          !.files["dutch-recruitment-news-scraper.cjs"] = sc] :
      d \in DotenvFiles, g \in GitignoreFiles,
      sv \in SecurityServerFiles, sc \in SecurityScriptFiles }

\* Numbers of files of a content type.
BulkCounts == { 0, 1, 10, 20 }

\* Content directories of BulkCounts files of every type, all types alike
\* but for one.
BulkEnvs ==
    { [Baseline EXCEPT
          !.md_files =
              Flatten([k \in 1..Len(CONTENT_TYPES) |->
                          [j \in 1..(IF CONTENT_TYPES[k] = odd THEN c ELSE b) |->
                              MdFile(CONTENT_TYPES[k], 1, "ok", GoodText)]])] :
      b \in BulkCounts, c \in BulkCounts, odd \in Range(CONTENT_TYPES) }

CodeCreatorFiles ==
    { Absent, Unreadable, HealthyCreator, File("ok", {}),
      File("ok", HealthyCreator.text \ { "analyzeWeeklyTrends" }),
      File("ok", HealthyCreator.text \ { "article" }) }

CodeServerFiles ==
    { Absent, Unreadable, HealthyServer, File("ok", {}),
      File("ok", HealthyServer.text \ { "/reports" }) }

CodeEnvs ==
    { [Baseline EXCEPT
          !.files["linkedin-content-creator.cjs"] = cr,
          !.files["zapier-webhook-server.cjs"] = sv,
          !.files["dutch-recruitment-news-scraper.cjs"] = sc,
          !.files["google-sheets-uploader.cjs"] = up] :
      cr \in CodeCreatorFiles, sv \in CodeServerFiles,
      sc \in { Absent, Unreadable, HealthyScript, File("ok", {}) },
      up \in { HealthyScript, File("ok", {}) } }

Areas == { "files", "net", "data", "content", "security", "code" }

\* Any combination of runners finding their part of the project degraded.
MixedEnvs ==
    { [Baseline EXCEPT
          !.files["package.json"] = IF "files" \in bad THEN Absent ELSE @,
          !.files["complete-automation-flow.cjs"] = IF "files" \in bad THEN Absent ELSE @,
          !.dirs["reports"] = IF "files" \in bad THEN "absent" ELSE @,
          !.net = IF "net" \in bad THEN [ep \in EndpointPaths |-> Failure("refused")] ELSE @,
          !.news = IF "data" \in bad THEN OkJson(InvalidJson) ELSE @,
          !.weekly = IF "data" \in bad THEN OkJson(ListJson(MIN_DAYS - 1)) ELSE @,
          !.backups = IF "data" \in bad THEN 0 ELSE @,
          !.md_files = IF "content" \in bad
                       THEN << MdFile("insightPost", 1, "ok",
                                      MdText(MIN_WORDS, TRUE, { "recruitment" })) >>
                       ELSE @,
          !.metadata = IF "content" \in bad THEN 0 ELSE @,
          !.dotenv = IF "security" \in bad THEN Absent ELSE @,
          !.gitignore = IF "security" \in bad THEN File("ok", { "node_modules" }) ELSE @,
          !.files["dutch-recruitment-news-scraper.cjs"] =
              IF "security" \in bad THEN File("ok", { TRY_BLOCK, "eval(" }) ELSE @,
          !.files["linkedin-content-creator.cjs"] =
              IF "code" \in bad
              THEN File("ok", HealthyCreator.text \ { "analyzeWeeklyTrends" })
              ELSE @] :
      bad \in SUBSET Areas }

Envs ==
    FilesEnvs \cup NetEnvs \cup DataEnvs \cup ContentEnvs \cup SecurityEnvs \cup CodeEnvs
    \cup MixedEnvs \cup BulkEnvs

\* Result sets for generate_recommendations: results of a name each rule
\* looks for and of one none looks for, pass, warn and fail; content results
\* that count files, info when they count none.
Counted(n) == << "weeklyRoundup", ": " >> \o Digits(n) \o << " files" >>

SampleResults ==
    { AuditResult(name, status, << "checked" >>, None) :
        name \in { "security_cors", "security_env_file", "data_weekly_articles",
                   "content_weeklyRoundup", "data_backups", "endpoint_/status",
                   "file_package.json" },
        status \in { "pass", "warn", "fail" } }
    \cup { AuditResult("content_weeklyRoundup", IF n = 0 THEN "info" ELSE "pass",
                       Counted(n), None) : n \in { 0, 3, 10 } }

ResultSets == UNION { [1..n -> SampleResults] : n \in 0..MaxResults }

\* Another result set the same auditor is asked about.
OTHER_RESULTS ==
    << AuditResult("security_cors", "warn", << "CORS: ", "Open (*)" >>, None) >>

(***************************************************************************)
(* main and run_full_audit                                                 *)
(***************************************************************************)
Commands == { "full", "files", "endpoints", "data", "content", "security", "code" }

\* The six runners in the order run_full_audit calls them.
RUNNERS ==
    << "audit_files", "audit_endpoints", "audit_data",
       "audit_linkedin_content", "audit_security", "audit_code_quality" >>

\* The runner the if/elif chain of main starts with.
Entry(cmd) ==
    CASE cmd \in { "full", "files" } -> "audit_files"
      [] cmd = "endpoints" -> "audit_endpoints"
      [] cmd = "data" -> "audit_data"
      [] cmd = "content" -> "audit_linkedin_content"
      [] cmd = "security" -> "audit_security"
      [] cmd = "code" -> "audit_code_quality"

\* Where control goes when a runner returns: run_full_audit calls the next
\* runner and, after the last, builds the report; a single-category command ends.
After(cmd, runner) ==
    IF cmd # "full" THEN "done"
    ELSE LET k == CHOOSE j \in DOMAIN RUNNERS : RUNNERS[j] = runner
         IN  IF k < Len(RUNNERS) THEN RUNNERS[k + 1] ELSE "report"

\* A runner that returns hands control on; an exception nothing catches
\* ends the process.
Continue(cmd, runner, call) == IF call.raised THEN "crashed" ELSE After(cmd, runner)

\* The option is read by the full command only: the single-category
\* commands are run with its default.
Init ==
    /\ env \in Envs
    /\ command \in Commands
    /\ output \in (IF command = "full" THEN OUTPUTS ELSE { "all" })
    /\ clock = 0
    /\ run = 1
    /\ saved = << >>
    /\ result_set = << >>
    /\ advice = << >>
    /\ pc = Entry(command)
    /\ calls = << >>
    /\ requests = << >>
    /\ file_results = << >>
    /\ endpoint_results = << >>
    /\ data_results = << >>
    /\ content_results = << >>
    /\ security_results = << >>
    /\ code_results = << >>
    /\ report = NoReport

AuditFiles ==
    /\ pc = "audit_files"
    /\ calls' = Append(calls, "audit_files")
    /\ file_results' = audit_files(env).results
    /\ pc' = Continue(command, "audit_files", audit_files(env))
    /\ UNCHANGED <<env, command, output, clock, run, saved, result_set, advice,
                   requests, endpoint_results, data_results,
                   content_results, security_results, code_results, report>>

AuditEndpoints ==
    /\ pc = "audit_endpoints"
    /\ calls' = Append(calls, "audit_endpoints")
    /\ requests' = audit_endpoints(env).requests
    /\ endpoint_results' = audit_endpoints(env).results
    /\ pc' = After(command, "audit_endpoints")
    /\ UNCHANGED <<env, command, output, clock, run, saved, result_set, advice,
                   file_results, data_results,
                   content_results, security_results, code_results, report>>

AuditData ==
    /\ pc = "audit_data"
    /\ calls' = Append(calls, "audit_data")
    /\ data_results' = audit_data(env).results
    /\ pc' = Continue(command, "audit_data", audit_data(env))
    /\ UNCHANGED <<env, command, output, clock, run, saved, result_set, advice,
                   requests, file_results, endpoint_results,
                   content_results, security_results, code_results, report>>

AuditContent ==
    /\ pc = "audit_linkedin_content"
    /\ calls' = Append(calls, "audit_linkedin_content")
    /\ content_results' = audit_linkedin_content(env).results
    /\ pc' = Continue(command, "audit_linkedin_content", audit_linkedin_content(env))
    /\ UNCHANGED <<env, command, output, clock, run, saved, result_set, advice,
                   requests, file_results, endpoint_results,
                   data_results, security_results, code_results, report>>

AuditSecurity ==
    /\ pc = "audit_security"
    /\ calls' = Append(calls, "audit_security")
    /\ security_results' = audit_security(env).results
    /\ pc' = Continue(command, "audit_security", audit_security(env))
    /\ UNCHANGED <<env, command, output, clock, run, saved, result_set, advice,
                   requests, file_results, endpoint_results,
                   data_results, content_results, code_results, report>>

AuditCode ==
    /\ pc = "audit_code_quality"
    /\ calls' = Append(calls, "audit_code_quality")
    /\ code_results' = audit_code_quality(env).results
    /\ pc' = Continue(command, "audit_code_quality", audit_code_quality(env))
    /\ UNCHANGED <<env, command, output, clock, run, saved, result_set, advice,
                   requests, file_results, endpoint_results,
                   data_results, content_results, security_results, report>>

\* run_full_audit after the six calls: all_results, summary, the report.
BuildReport ==
    /\ pc = "report"
    /\ report' = AuditReport(file_results, endpoint_results, data_results,
                             content_results, security_results, code_results)
    /\ advice' = Append(advice,
                     [all_results |-> AllResults(file_results, endpoint_results,
                                          data_results, content_results,
                                          security_results, code_results),
                      recommendations |-> report'.recommendations])
    /\ pc' = "save_report"
    /\ UNCHANGED <<env, command, output, clock, run, saved, result_set, calls, requests,
                   file_results, endpoint_results, data_results, content_results,
                   security_results, code_results>>

\* main after run_full_audit: save_report(report, args.output).
SaveReport ==
    /\ pc = "save_report"
    /\ saved' = saved \o save_report(report, output, clock, run)
    /\ pc' = "done"
    /\ UNCHANGED <<env, command, output, clock, run, result_set, advice, calls, requests,
                   file_results, endpoint_results, data_results, content_results,
                   security_results, code_results, report>>

Next ==
    \/ AuditFiles
    \/ AuditEndpoints
    \/ AuditData
    \/ AuditContent
    \/ AuditSecurity
    \/ AuditCode
    \/ BuildReport
    \/ SaveReport

Spec == Init /\ [][Next]_vars

(***************************************************************************)
(* Runs one after another.  Time passes; when a run has ended the program  *)
(* is started again, with any command and option, in the same project.     *)
(***************************************************************************)
Tick ==
    /\ clock < MaxClock
    /\ clock' = clock + 1
    /\ UNCHANGED <<env, command, output, run, saved, result_set, advice, pc, calls,
                   requests, file_results, endpoint_results, data_results,
                   content_results, security_results, code_results, report>>

NextRun ==
    /\ pc \in { "done", "crashed" }
    /\ run < MaxRuns
    /\ run' = run + 1
    /\ command' \in Commands
    /\ output' \in (IF command' = "full" THEN OUTPUTS ELSE { "all" })
    /\ pc' = Entry(command')
    /\ advice' = << >>
    /\ calls' = << >>
    /\ requests' = << >>
    /\ file_results' = << >>
    /\ endpoint_results' = << >>
    /\ data_results' = << >>
    /\ content_results' = << >>
    /\ security_results' = << >>
    /\ code_results' = << >>
    /\ report' = NoReport
    /\ UNCHANGED <<env, clock, saved, result_set>>

RunsInit == Init /\ env \in MixedEnvs

RunsNext == Next \/ Tick \/ NextRun

RunsSpec == RunsInit /\ [][RunsNext]_vars

(***************************************************************************)
(* generate_recommendations applied to a result set, again and again, and  *)
(* to another one in between.                                              *)
(***************************************************************************)
RecommendInit ==
    /\ env = Baseline
    /\ command = "full"
    /\ output = "all"
    /\ clock = 0
    /\ run = 1
    /\ saved = << >>
    /\ result_set \in ResultSets
    /\ advice = << >>
    /\ pc = "generate_recommendations"
    /\ calls = << >>
    /\ requests = << >>
    /\ file_results = << >>
    /\ endpoint_results = << >>
    /\ data_results = << >>
    /\ content_results = << >>
    /\ security_results = << >>
    /\ code_results = << >>
    /\ report = NoReport

GenerateRecommendations ==
    /\ pc = "generate_recommendations"
    /\ Len(advice) < MaxCalls
    /\ \E results \in { result_set, OTHER_RESULTS } :
           advice' = Append(advice, [all_results |-> results,
                                     recommendations |-> generate_recommendations(results)])
    /\ UNCHANGED <<env, command, output, clock, run, saved, result_set, pc, calls,
                   requests, file_results, endpoint_results, data_results,
                   content_results, security_results, code_results, report>>

RecommendSpec == RecommendInit /\ [][GenerateRecommendations]_vars

(***************************************************************************)
(* Properties                                                              *)
(***************************************************************************)
Called(runner) == \E k \in DOMAIN calls : calls[k] = runner

\* The exception that ended the process escaped from this runner.
CrashedIn(runner) == pc = "crashed" /\ calls # << >> /\ calls[Len(calls)] = runner

ReturnedFrom(runner) == Called(runner) /\ ~CrashedIn(runner)

\* run_full_audit has returned its report.
ReportBuilt == command = "full" /\ pc \in { "save_report", "done" }

Named(results, name) == { k \in DOMAIN results : results[k].name = name }

Statuses(results) == { results[k].status : k \in DOMAIN results }

\* C1: in every report run_full_audit returns, summary.total_checks equals
\* passed + warnings + failed + info, and equals the sum of the lengths of
\* the six category lists of that report.
C1_SummaryTotals ==
    ReportBuilt =>
        /\ report.summary.total_checks =
               report.summary.passed + report.summary.warnings
               + report.summary.failed + report.summary.info
        /\ report.summary.total_checks =
               Len(report.file_audit) + Len(report.endpoint_audit)
               + Len(report.data_audit) + Len(report.content_audit)
               + Len(report.security_audit) + Len(report.code_audit)

\* A report in which all four statuses occur and every category has results.
C1_Witness ==
    /\ ReportBuilt
    /\ report.summary.passed > 0 /\ report.summary.warnings > 0
    /\ report.summary.failed > 0 /\ report.summary.info > 0
    /\ report.code_audit # << >>

\* C2: whatever the state of the audited environment, the full audit never
\* ends by an exception escaping from a check: it goes through all six
\* runners in order and returns a report.
C2_NoCheckAborts ==
    /\ command = "full" => pc # "crashed"
    /\ ReportBuilt => calls = RUNNERS

\* C3: per endpoint, HTTP 200 gives pass, an answer with any other status
\* code (404, 500, ...) gives warn, and a failure of the network or any other
\* exception gives fail with the error text in details.
C3_OutcomeToStatus ==
    ReturnedFrom("audit_endpoints") =>
        \A k \in DOMAIN ENDPOINTS :
            LET answer == env.net[ENDPOINTS[k][1]]
                result == endpoint_results[k]
            IN  /\ Len(endpoint_results) = Len(ENDPOINTS)
                /\ answer.kind = "http" /\ answer.code = 200 => result.status = "pass"
                /\ answer.kind = "http" /\ answer.code # 200 => result.status = "warn"
                /\ answer.kind # "http" =>
                       result.status = "fail" /\ result.details.error # ""

\* C4: audit_endpoints calls urlopen exactly once per endpoint, for the seven
\* endpoints in the order of ENDPOINTS, and returns seven results, one per
\* endpoint in that order, whatever the outcomes of the requests were.
C4_OneAttemptPerEndpoint ==
    ReturnedFrom("audit_endpoints") =>
        /\ Len(ENDPOINTS) = 7
        /\ requests = [k \in 1..7 |-> ENDPOINTS[k][1]]
        /\ Len(endpoint_results) = 7
        /\ \A k \in 1..7 : endpoint_results[k].name = "endpoint_" \o ENDPOINTS[k][1]

\* The runner has returned after a request that failed was followed by
\* requests that succeeded and by one answered with another status code.
C4_Witness ==
    /\ ReturnedFrom("audit_endpoints")
    /\ Len(endpoint_results) = 7
    /\ \E j \in 1..6 :
           /\ endpoint_results[j].status = "fail"
           /\ \A k \in (j + 1)..7 : endpoint_results[k].status # "fail"
    /\ "warn" \in Statuses(endpoint_results)

\* The content directory exists, is a directory and holds nothing.
ContentDirEmpty == env.dirs["content"] = "dir" /\ env.md_files = << >> /\ env.metadata = 0

ContentDirAbsent == env.dirs["content"] = "absent"

\* C5 as stated: with the content directory absent, or present and empty,
\* audit_linkedin_content returns exactly one result, a warn or an info, and
\* no content_quality result.
C5_SingleResultWhenAbsentOrEmpty ==
    ReturnedFrom("audit_linkedin_content") /\ (ContentDirAbsent \/ ContentDirEmpty) =>
        /\ Len(content_results) = 1
        /\ content_results[1].status \in { "warn", "info" }
        /\ Named(content_results, "content_quality") = {}

\* C5 as amended: with the content directory absent the runner returns the
\* single result content_dir, a warn; with the directory present and empty it
\* returns five results, the four per-type results and content_metadata, all
\* info; in both cases there is no content_quality result.
C5_AbsentOneResultEmptyFive ==
    ReturnedFrom("audit_linkedin_content") =>
        /\ ContentDirAbsent =>
               /\ Len(content_results) = 1
               /\ content_results[1].name = "content_dir"
               /\ content_results[1].status = "warn"
        /\ ContentDirEmpty =>
               /\ Len(content_results) = 5
               /\ \A k \in 1..4 : content_results[k].name = "content_" \o CONTENT_TYPES[k]
               /\ content_results[5].name = "content_metadata"
               /\ Statuses(content_results) = { "info" }
        /\ ContentDirAbsent \/ ContentDirEmpty =>
               Named(content_results, "content_quality") = {}

\* The runner has returned on an empty content directory.
C5_Witness == ReturnedFrom("audit_linkedin_content") /\ ContentDirEmpty

\* The markdown files the content directory holds.
HeldMdFiles == IF env.dirs["content"] = "dir" THEN env.md_files ELSE << >>

\* The most recently modified of them are those no other file is newer than.
IsMostRecent(f) == \A k \in DOMAIN HeldMdFiles : HeldMdFiles[k].mtime <= f.mtime

GoodQuality(f) ==
    /\ f.text.words > 100
    /\ f.text.hashtag
    /\ f.text.vocabulary \cap { "recruitment", "Recruitment", "nederlandse", "NEDERLANDSE",
                                "arbeidsmarkt", "Arbeidsmarkt" } # {}

\* What C6 says of the results: exactly one content_quality result, about a
\* most recently modified markdown file, pass exactly when that file has
\* more than 100 words, a '#' and one of the keywords in any case, else warn.
QualityResultAsClaimed ==
    /\ Cardinality(Named(content_results, "content_quality")) = 1
    /\ \A k \in Named(content_results, "content_quality") :
           /\ IsMostRecent(content_results[k].details.file)
           /\ content_results[k].details.file \in Range(HeldMdFiles)
           /\ content_results[k].status =
                  IF GoodQuality(content_results[k].details.file) THEN "pass" ELSE "warn"

\* C6: once audit_linkedin_content has run on a content directory holding at
\* least one markdown file, it has emitted exactly one content_quality result
\* as described above.
C6_QualityOfLatestFile ==
    Called("audit_linkedin_content") /\ HeldMdFiles # << >> => QualityResultAsClaimed

\* What holds of the code: the same, whenever the runner returns.
QualityOfLatestFileWhenReturned ==
    ReturnedFrom("audit_linkedin_content") /\ HeldMdFiles # << >> => QualityResultAsClaimed

\* The weekly-top-articles.json file as audit_data finds it.
WeeklyFile == IF env.dirs["data"] = "dir" THEN env.weekly ELSE AbsentJson

\* The status C7 gives the data_weekly_articles result.
WeeklyStatusAsClaimed ==
    IF WeeklyFile.state = "absent" THEN "warn"
    ELSE IF WeeklyFile.state = "unreadable" \/ WeeklyFile.text.kind = "invalid" THEN "fail"
    ELSE IF WeeklyFile.text.kind = "list" /\ WeeklyFile.text.len >= 3 THEN "pass"
    ELSE "warn"

WeeklyResultAsClaimed ==
    /\ Cardinality(Named(data_results, "data_weekly_articles")) = 1
    /\ \A k \in Named(data_results, "data_weekly_articles") :
           data_results[k].status = WeeklyStatusAsClaimed

\* C7: audit_data always emits exactly one data_weekly_articles result: warn
\* when the file is missing, fail when it is not valid JSON, and otherwise
\* pass exactly when the parsed value is a list of at least 3 entries.
C7_WeeklyArticlesResult == Called("audit_data") => WeeklyResultAsClaimed

\* What holds of the code: the same, whenever the runner returns.
WeeklyArticlesResultWhenReturned == ReturnedFrom("audit_data") => WeeklyResultAsClaimed

ServerSource == env.files["zapier-webhook-server.cjs"]

HasOpenCorsMarker ==
    ServerSource.text \cap { CORS_MARKER, "res.setHeader('Access-Control-Allow-Origin', '*')" } # {}

CorsResultAsClaimed ==
    /\ Cardinality(Named(security_results, "security_cors")) = 1
    /\ \A k \in Named(security_results, "security_cors") :
           security_results[k].status = IF HasOpenCorsMarker THEN "warn" ELSE "pass"

\* C8: audit_security reports a CORS result about the webhook server source:
\* warn when the source holds the open-CORS marker, pass when it does not.
C8_CorsResult ==
    Called("audit_security") /\ ServerSource.state = "ok" => CorsResultAsClaimed

\* What holds of the code: the same, whenever the runner returns.
CorsResultWhenReturned ==
    ReturnedFrom("audit_security") /\ ServerSource.state = "ok" => CorsResultAsClaimed

StatusOf(results, name) == { results[k].status : k \in Named(results, name) }

GitignoreMentionsEnv == env.gitignore.text \cap { ".env", ".env.local" } # {}

\* C9: in every result list audit_security returns, only security_gitignore
\* can be fail, and it is fail exactly when .gitignore exists and does not
\* mention .env, pass when it does; code-scan matches, a missing .env, a
\* .env without WEBHOOK_SECRET and open CORS are each reported as warn.
C9_OnlyGitignoreFails ==
    ReturnedFrom("audit_security") =>
        /\ \A k \in DOMAIN security_results :
               security_results[k].status = "fail" =>
                   security_results[k].name = "security_gitignore"
        /\ StatusOf(security_results, "security_gitignore") =
               IF ~Exists(env.gitignore) THEN {}
               ELSE IF GitignoreMentionsEnv THEN { "pass" } ELSE { "fail" }
        /\ (\E name \in FileNames \ { "package.json" } :
                /\ env.files[name].state = "ok"
                /\ \E frag \in env.files[name].text : \E p \in REGEX_MATCHES : p[2] = frag)
               => StatusOf(security_results, "security_code_scan") = { "warn" }
        /\ ~Exists(env.dotenv) => StatusOf(security_results, "security_env_file") = { "warn" }
        /\ Exists(env.dotenv) /\ env.dotenv.text = {}
               => StatusOf(security_results, "security_webhook_secret") = { "warn" }
        /\ Exists(ServerSource) /\ HasOpenCorsMarker
               => StatusOf(security_results, "security_cors") = { "warn" }

\* A returned list in which security_gitignore is fail while the code scan,
\* the secret and the CORS findings are all present as warn.
C9_Witness ==
    /\ ReturnedFrom("audit_security")
    /\ StatusOf(security_results, "security_gitignore") = { "fail" }
    /\ StatusOf(security_results, "security_code_scan") = { "warn" }
    /\ StatusOf(security_results, "security_webhook_secret") = { "warn" }
    /\ StatusOf(security_results, "security_cors") = { "warn" }

JsonWrites == { k \in DOMAIN saved : saved[k].format = "json" /\ saved[k].run = run }

CATEGORIES ==
    { "file_audit", "endpoint_audit", "data_audit", "content_audit", "security_audit",
      "code_audit" }

SUMMARY_KEYS == { "total_checks", "passed", "warnings", "failed", "info" }

\* The value parsed has the summary counts of r and, in every category, as
\* many results as r, of the same name and status at each position.
SameCountsAndResults(parsed, r) ==
    /\ \A key \in SUMMARY_KEYS : parsed["summary"][key] = r.summary[key]
    /\ \A category \in CATEGORIES :
           /\ Len(parsed[category]) = Len(r[category])
           /\ \A k \in DOMAIN r[category] :
                  /\ parsed[category][k]["name"] = r[category][k].name
                  /\ parsed[category][k]["status"] = r[category][k].status

\* C11: the JSON file save_report writes for a report (to_dict, json.dump),
\* parsed back, has the five summary counts of the report and, for each of
\* the six categories, a list of the same length with the same name and
\* status at each position.
C11_JsonRoundTrip ==
    \A k \in JsonWrites : SameCountsAndResults(json_load(saved[k].content), report)

\* A JSON file was written for a report with results in every category,
\* not as many in one as in another, and with every status counted.
C11_Witness ==
    /\ JsonWrites # {}
    /\ \A category \in CATEGORIES : report[category] # << >>
    /\ \A key \in SUMMARY_KEYS : report.summary[key] > 0
    /\ Len(report.code_audit) # Len(report.security_audit)

\* C12: save_report never overwrites a report file an earlier run wrote:
\* no file name is used by two runs, also when both save within one second.
C12_NeverOverwrites ==
    \A i, j \in DOMAIN saved :
        i < j /\ saved[i].file = saved[j].file => saved[i].run = saved[j].run

\* What holds of the code: a file is overwritten only by a run that saves
\* in the second in which the file was written.
OverwritesOnlyWithinOneSecond ==
    \A i, j \in DOMAIN saved :
        i < j /\ saved[i].file = saved[j].file /\ saved[i].run # saved[j].run
            => /\ saved[i].at \div TicksPerSecond = saved[j].at \div TicksPerSecond
               /\ saved[i].format = saved[j].format

\* The run has ended: main has returned, or an exception has escaped.
Ended == pc \in { "done", "crashed" }

\* The formats of the files written, in the order written.
FormatsSaved == [k \in DOMAIN saved |-> saved[k].format]

\* The files the output option asks for.
FormatsOf(option) ==
    CASE option = "json" -> << "json" >>
      [] option = "md" -> << "md" >>
      [] option = "all" -> << "json", "md" >>

\* What the command is to have done when the run has ended.
DispatchedAsClaimed ==
    IF command = "full"
    THEN /\ calls = RUNNERS
         /\ report.title = TITLE
         /\ FormatsSaved = FormatsOf(output)
    ELSE /\ calls = << Entry(command) >>
         /\ saved = << >>

\* C13: the full command runs the six runners in the order files,
\* endpoints, data, content, security, code, then builds the report and
\* saves it as JSON, as Markdown or as both, as the output option says; a
\* single-category command runs its runner and no other, and writes no file.
C13_CommandDispatch ==
    /\ Ended => DispatchedAsClaimed
    /\ \A k \in DOMAIN calls : k <= Len(RUNNERS) /\ (command = "full" => calls[k] = RUNNERS[k])
    /\ saved # << >> => command = "full" /\ calls = RUNNERS

\* What holds of the code: C13 for the runs in which no runner raises.
CommandDispatchWhenNoCheckRaises ==
    /\ pc = "done" => DispatchedAsClaimed
    /\ \A k \in DOMAIN calls : k <= Len(RUNNERS) /\ (command = "full" => calls[k] = RUNNERS[k])
    /\ saved # << >> => command = "full" /\ calls = RUNNERS

\* The place of an advice in the order of the rules.
RuleOf(text) == CHOOSE k \in DOMAIN ADVICE : ADVICE[k] = text

\* recommendations is R ++ G: G the general recommendations, R the advice
\* of exactly the rules whose condition holds of all_results, each once, in
\* the order of the rules.
RulesThenGeneral(results, recommendations) ==
    LET n == Len(recommendations) - Len(DEFAULT_RECOMMENDATIONS)
        R == SubSeq(recommendations, 1, n)
        G == SubSeq(recommendations, n + 1, Len(recommendations))
    IN  /\ n >= 0
        /\ G = DEFAULT_RECOMMENDATIONS
        /\ \A i \in 1..n : R[i] \in Range(ADVICE)
        /\ \A i, j \in 1..n : i < j => RuleOf(R[i]) < RuleOf(R[j])
        /\ \A k \in DOMAIN ADVICE :
               Condition(k, results) <=> \E i \in 1..n : R[i] = ADVICE[k]

\* C14: for every result set, generate_recommendations returns R ++ G, G
\* the same four general recommendations in the same order, R the advice
\* of every rule whose condition holds and of no other, each at most once,
\* in the order of the rule table; no rule suppresses another.
C14_RulesThenGeneral ==
    \A c \in DOMAIN advice :
        RulesThenGeneral(advice[c].all_results, advice[c].recommendations)

\* The rules whose condition holds of a result set.
RulesHolding(results) == { k \in DOMAIN ADVICE : Condition(k, results) }

\* A call on a result set of which several rules hold, one of them after a
\* rule that does not hold, and others do not.
C14_Witness ==
    \E c \in DOMAIN advice :
        LET holding == RulesHolding(advice[c].all_results)
        IN  /\ Cardinality(holding) >= 2
            /\ \E k \in DOMAIN ADVICE : k \notin holding /\ \E l \in holding : k < l
            /\ Len(advice[c].recommendations)
                   = Cardinality(holding) + Len(DEFAULT_RECOMMENDATIONS)

Advised(text) == \E i \in DOMAIN report.recommendations : report.recommendations[i] = text

\* The check of some content type has counted no file of its type.
SomeContentTypeWithoutFiles ==
    \E k \in DOMAIN report.content_audit :
        /\ \E t \in Range(CONTENT_TYPES) : report.content_audit[k].name = "content_" \o t
        /\ report.content_audit[k].details.count = 0

\* C16: in a full audit the advice to generate LinkedIn content is given
\* if and only if one of the four content-type checks counted zero files;
\* it is not given when every type has files, 10 or 20 of each for example.
C16_ContentAdviceIffZeroFiles ==
    ReportBuilt => (Advised(ADVICE[4]) <=> SomeContentTypeWithoutFiles)

\* What holds of the code: the advice is given if and only if the number of
\* files some content-type check counted ends in the digit 0.
ContentAdviceIffCountEndsInZero ==
    ReportBuilt =>
        (Advised(ADVICE[4]) <=>
            \E k \in DOMAIN report.content_audit :
                /\ \E t \in Range(CONTENT_TYPES) : report.content_audit[k].name = "content_" \o t
                /\ report.content_audit[k].details.count % 10 = 0)

\* C17: in a full audit the advice to run daily uploads for at least 3 days
\* is given if and only if the data_weekly_articles result is not pass; no
\* other check makes it appear.
C17_WeeklyAdviceIffWeeklyDataNotPass ==
    ReportBuilt =>
        (Advised(ADVICE[3]) <=>
            \E k \in DOMAIN report.data_audit :
                /\ report.data_audit[k].name = "data_weekly_articles"
                /\ report.data_audit[k].status # "pass")

\* The results of a report in one list.
ResultsOf(r) ==
    r.file_audit \o r.endpoint_audit \o r.data_audit \o r.content_audit
    \o r.security_audit \o r.code_audit

\* What holds of the code: the advice is given if and only if one of
\* data_weekly_articles, content_weeklyRoundup and
\* endpoint_/weekly-content-creation is not pass.
WeeklyAdviceIffSomeWeeklyNameNotPass ==
    ReportBuilt =>
        (Advised(ADVICE[3]) <=>
            \E k \in DOMAIN ResultsOf(report) :
                /\ ResultsOf(report)[k].name \in
                       { "data_weekly_articles", "content_weeklyRoundup",
                         "endpoint_/weekly-content-creation" }
                /\ ResultsOf(report)[k].status # "pass")

\* The security checks about the secrets: the .env file, WEBHOOK_SECRET in
\* it, .env in .gitignore.
SECRETS_CHECKS == { "security_env_file", "security_webhook_secret", "security_gitignore" }

\* C18: in a full audit, whenever a security check about the secrets is
\* warn or fail (no .env file, no WEBHOOK_SECRET in it, .env not excluded by
\* .gitignore), the advice to configure the .env file is given.
C18_EnvAdviceOnSecretsFindings ==
    ReportBuilt =>
        ((\E k \in DOMAIN report.security_audit :
              /\ report.security_audit[k].name \in SECRETS_CHECKS
              /\ report.security_audit[k].status \in { "warn", "fail" })
         => Advised(ADVICE[2]))

\* What holds of the code: the advice is given if and only if the
\* security_env_file result is warn, that is, there is no .env file.
EnvAdviceIffNoEnvFile ==
    ReportBuilt =>
        (Advised(ADVICE[2]) <=>
            \E k \in DOMAIN report.security_audit :
                /\ report.security_audit[k].name = "security_env_file"
                /\ report.security_audit[k].status = "warn")

====
